---- MODULE Spec2Model ----
(***************************************************************************)
(* Street names inside a drawn polygon: the polygon serializer, the        *)
(* debounced Overpass query client and the draw-event handlers of the      *)
(* Svelte page.  The repository holds two revisions of the page; the       *)
(* variable `variant` says which one runs:                                 *)
(*   "part_000"     src/unnamed/part_000         (strict serializer, 429)  *)
(*   "page_svelte"  src/src/routes/+page.svelte  (lenient serializer)      *)
(***************************************************************************)
EXTENDS Integers, Sequences, FiniteSets, TLC

VARIABLES
  variant,        \* which revision of the page is running
  now,            \* Date.now(), in ms
  drawing,        \* the draw widget is between draw:drawstart and created/drawstop
  drawnItems,     \* layers of the L.FeatureGroup drawnItems
  layerGeom,      \* what each layer's getLatLngs() returns (a geometry kind)
  nextLayer,      \* number of layers the widget has created so far
  drawnPolygon,   \* let drawnPolygon
  streets,        \* let streets
  loading,        \* let loading
  errorMsg,       \* let errorMsg
  lastQueryTime,  \* let lastQueryTime
  pc,             \* the invocation of fetchStreetsForPolygon running its try block
  inflight,       \* invocations suspended at an await
  netCalls,       \* number of fetch() calls issued so far
  lastOp,         \* the handler or continuation that ran last, and what its call did
  discarded,      \* a delete or redraw has happened and no query was accepted since
  hist,           \* history: streetsFrom and errorFrom, the layers whose queries wrote
                  \* streets and errorMsg; lastFetchTime, the time of the last fetch();
                  \* overlap, the last request was issued with another in flight;
                  \* queried, the layers of the group with an accepted query
  input,          \* SerSpec, AggSpec: the argument the function is applied to
  output          \* SerSpec, AggSpec: its result, once applied

vars == <<variant, now, drawing, drawnItems, layerGeom, nextLayer, drawnPolygon,
          streets, loading, errorMsg, lastQueryTime, pc, inflight, netCalls,
          lastOp, discarded, hist, input, output>>

appVars == <<now, drawing, drawnItems, layerGeom, nextLayer, drawnPolygon,
             streets, loading, errorMsg, lastQueryTime, pc, inflight, netCalls,
             lastOp, discarded, hist>>

(***************************************************************************)
(* Bounds of the model.                                                    *)
(***************************************************************************)
MaxVerts == 4     \* longest ring given to the serializer
MaxElems == 3     \* longest `elements` list of a response
MaxLayers == 2    \* polygons the user draws
MaxWindows == 1   \* the clock runs over MaxWindows debounce windows

(***************************************************************************)
(* Program constants.                                                      *)
(***************************************************************************)
DebounceMs == 1500

Variants == {"part_000", "page_svelte"}

Null == "null"    \* JavaScript null, for drawnPolygon and errorMsg

(***************************************************************************)
(* Values: exceptions and results of a call that may throw.                *)
(***************************************************************************)
\* A thrown value: whether it is an Error instance, and its .message ("" when
\* the message is empty or the value has no message property).
Exc(isError, message) == [isError |-> isError, message |-> message]

Return(v) == [ok |-> TRUE, value |-> v, exc |-> Exc(FALSE, "")]

Throw(e) == [ok |-> FALSE, value |-> <<>>, exc |-> e]

\* the text of the Error thrown at part_000 lines 23-25 (its backquote is
\* written as an apostrophe)
InvalidPolygonMsg ==
  "Invalid polygon structure. You probably can't fix this, there is a bug in the code, but you could try drawing a different polygon."

NotAFunctionMsg == "polygon.map is not a function"

(***************************************************************************)
(* Geometry: what getLatLngs() returns.  A value is an array or a LatLng.  *)
(***************************************************************************)
LatLng(lat, lng) == [isArray |-> FALSE, lat |-> lat, lng |-> lng, items |-> <<>>]

Arr(items) == [isArray |-> TRUE, lat |-> 0, lng |-> 0, items |-> items]

\* the template string of pt.lat, a space and pt.lng; a string is modelled as
\* the sequence of its pieces.
PtText(pt) ==
  IF pt.isArray THEN <<"undefined", " ", "undefined">>
  ELSE <<ToString(pt.lat), " ", ToString(pt.lng)>>

\* Array.prototype.join with a single space, over the strings of a list
RECURSIVE JoinSp(_)
JoinSp(strs) ==
  IF Len(strs) = 0 THEN <<>>
  ELSE IF Len(strs) = 1 THEN strs[1]
  ELSE strs[1] \o <<" ">> \o JoinSp(Tail(strs))

\* a ring whose closing vertex repeats the first one is written without it
MapJoinOpenRing(ring) ==
  LET n == Len(ring)
      open == IF n > 1 /\ ring[n] = ring[1] THEN SubSeq(ring, 1, n - 1) ELSE ring
  IN  JoinSp([i \in 1..Len(open) |-> PtText(open[i])])

\* ring.map(pt => text of pt).join(space)
MapJoin(ring) == JoinSp([i \in 1..Len(ring) |-> PtText(ring[i])])

\* part_000: exactly one ring, or throw
polygonToOverpassPolyStrict(g) ==
  IF ~g.isArray \/ Len(g.items) = 0 \/ Len(g.items) > 1
    THEN Throw(Exc(TRUE, InvalidPolygonMsg))
  ELSE IF ~g.items[1].isArray
    THEN Throw(Exc(TRUE, NotAFunctionMsg))
  ELSE Return(MapJoin(g.items[1].items))

\* +page.svelte: the first ring when nested, the list itself otherwise
polygonToOverpassPolyLenient(g) ==
  LET rings == g.items
      first == IF Len(rings) > 0 /\ rings[1].isArray THEN rings[1].items ELSE rings
  IN  Return(MapJoin(first))

polygonToOverpassPoly(v, g) ==
  IF v = "part_000" THEN polygonToOverpassPolyStrict(g)
  ELSE polygonToOverpassPolyLenient(g)

(***************************************************************************)
(* Response aggregation: the Set of names and the locale-aware sort.       *)
(***************************************************************************)
\* Street names of the model.  The two Cafe names are the same text in the two
\* Unicode normalization forms (precomposed U+00E9, and e followed by the
\* combining accent U+0301): different strings that are canonically equivalent.
CafeNFC == "Caf<U+00E9> Row"

CafeNFD == "Cafe<U+0301> Row"

Names == {"High Street", "high street", "Main Street", CafeNFC, CafeNFD}

\* The collation key String.prototype.localeCompare orders by: the letters
\* first, then lower case before upper case.  Canonically equivalent strings
\* have one key.
CollationKey(s) ==
  CASE s = CafeNFC -> <<1, 2>>
    [] s = CafeNFD -> <<1, 2>>
    [] s = "high street" -> <<2, 1>>
    [] s = "High Street" -> <<2, 2>>
    [] s = "Main Street" -> <<3, 2>>

\* a.localeCompare(b): negative, zero or positive
localeCompare(a, b) ==
  LET ka == CollationKey(a)
      kb == CollationKey(b)
  IN  IF ka[1] < kb[1] THEN -1
      ELSE IF ka[1] > kb[1] THEN 1
      ELSE IF ka[2] < kb[2] THEN -1
      ELSE IF ka[2] > kb[2] THEN 1
      ELSE 0

\* An element of the response: its type, and tags?.name ("" when the element
\* has no tags, the tags have no name, or the name is the empty string).
Element(type, hasTags, name) == [type |-> type, hasTags |-> hasTags, name |-> name]

TagName(el) == IF el.hasTags THEN el.name ELSE ""

\* the test of the tag without the test of the type
QualifiesAnyType(el) == TagName(el) # ""

\* el.type === 'way' && el.tags?.name
Qualifies(el) == el.type = "way" /\ TagName(el) # ""

\* a list instead of a Set: every name is kept
SetAddAlways(names, x) == Append(names, x)

\* names.add(x) on a Set kept in insertion order
SetAdd(names, x) ==
  IF \E i \in 1..Len(names) : names[i] = x THEN names ELSE Append(names, x)

\* the for loop over json.elements
RECURSIVE CollectNames(_, _)
CollectNames(elements, names) ==
  IF Len(elements) = 0 THEN names
  ELSE CollectNames(Tail(elements),
                    IF Qualifies(elements[1])
                      THEN SetAdd(names, TagName(elements[1])) ELSE names)

\* no sorting: x goes last
InsertAtEnd(sorted, x) == Append(sorted, x)

\* one step of a stable sort: x goes after every entry that does not compare
\* greater than it
RECURSIVE InsertSorted(_, _)
InsertSorted(sorted, x) ==
  IF Len(sorted) = 0 THEN <<x>>
  ELSE IF localeCompare(sorted[1], x) > 0 THEN <<x>> \o sorted
  ELSE <<sorted[1]>> \o InsertSorted(Tail(sorted), x)

\* Array.prototype.sort((a, b) => a.localeCompare(b)): stable
RECURSIVE SortNames(_, _)
SortNames(list, sorted) ==
  IF Len(list) = 0 THEN sorted
  ELSE SortNames(Tail(list), InsertSorted(sorted, list[1]))

\* A parsed response body: whether json.elements is an array, and its elements
Json(isList, elements) == [elementsIsArray |-> isList, elements |-> elements]

\* lines 60-66: the street list of a parsed response
StreetsOf(json) ==
  SortNames(IF json.elementsIsArray THEN CollectNames(json.elements, <<>>) ELSE <<>>,
            <<>>)

(***************************************************************************)
(* Error messages.                                                         *)
(***************************************************************************)
FallbackMsg == "Failed to load streets"

RetryHint == "Depending on the error try clicking 'Retry'"

RateLimitText ==
  " (rate limit). There are some limits on queries per second/minute. "

\* resp.ok
RespOk(status) == status >= 200 /\ status <= 299

\* one message for every status
StatusMsgGeneric(status) == "Overpass error " \o ToString(status)

\* the message of the Error thrown for a response that is not ok
StatusMsgStrict(status) ==
  IF status = 429
    THEN "Overpass error 429" \o RateLimitText \o RetryHint
    ELSE "Overpass error " \o ToString(status)

StatusMsgLenient(status) == "Overpass error " \o ToString(status)

StatusMsg(v, status) ==
  IF v = "part_000" THEN StatusMsgStrict(status) ELSE StatusMsgLenient(status)

\* the catch block: the value assigned to errorMsg
CatchMsgStrict(e) == IF e.isError THEN e.message ELSE FallbackMsg

CatchMsgLenient(e) == IF e.message # "" THEN e.message ELSE FallbackMsg

CatchMsg(v, e) == IF v = "part_000" THEN CatchMsgStrict(e) ELSE CatchMsgLenient(e)

(***************************************************************************)
(* The results panel.                                                      *)
(***************************************************************************)
\* which branch of the {#if} chain is rendered
PanelOf(dp, ld, em, st) ==
  IF dp = Null THEN "prompt"
  ELSE IF ld THEN "loading"
  ELSE IF em # Null /\ em # "" THEN "error"
  ELSE IF Len(st) = 0 THEN "empty"
  ELSE "list"

Panel == PanelOf(drawnPolygon, loading, errorMsg, streets)

\* the paragraphs of the error branch
ErrorPanelText(v, em) ==
  IF v = "part_000" THEN <<em>>
  ELSE <<em, "There are some limits on queries per second/minute. " \o RetryHint>>

(***************************************************************************)
(* The environment: the clock, the draw widget and the query service.      *)
(***************************************************************************)
StartTime == 100000   \* Date.now() when the page loads

\* the instants the clock is read at: the last millisecond of a debounce window
\* and the first one after it
Instants ==
  { StartTime + k * DebounceMs - d : k \in 0..MaxWindows, d \in {0, 1} }
    \ { StartTime - 1 }

LayerIds == [i \in 1..MaxLayers |-> "P" \o ToString(i)]

Layers == { LayerIds[i] : i \in 1..MaxLayers }

\* what getLatLngs() of a drawn layer returns
GeomKinds == {"ring", "none", "two"}

Triangle == <<LatLng(55, -3), LatLng(56, -3), LatLng(56, -2)>>

GeomOf(kind) ==
  CASE kind = "ring" -> Arr(<<Arr(Triangle)>>)
    [] kind = "none" -> Arr(<<>>)
    [] kind = "two" -> Arr(<<Arr(Triangle), Arr(<<LatLng(1, 1), LatLng(1, 2), LatLng(2, 2)>>)>>)

\* the geometry of the layers of drawnItems is the relevant one: a layer out of
\* the group is never read again
NoGeom == [l \in Layers |-> "ring"]

Statuses == {200, 404, 429, 500}

\* what fetch() and resp.json() reject with
RejectReasons == {Exc(TRUE, "Failed to fetch"), Exc(TRUE, ""), Exc(FALSE, "")}

HighSt == Element("way", TRUE, "High Street")

\* response bodies of the query service
Bodies ==
  { Json(TRUE, <<>>),
    Json(TRUE, <<HighSt, HighSt, Element("node", FALSE, "")>>),
    Json(TRUE, <<Element("way", TRUE, "Main Street"), HighSt>>),
    Json(FALSE, <<>>) }

(***************************************************************************)
(* What the last step was (history, for stating the properties).           *)
(***************************************************************************)
NoExc == Exc(FALSE, "")

\* result: the street list a resolved resp.json() has produced
Op(op, call, req, status, threw, exc) ==
  [op |-> op, call |-> call, req |-> req, status |-> status, threw |-> threw, exc |-> exc,
   result |-> <<>>]

Handler(op, call) == Op(op, call, 0, 0, FALSE, NoExc)

\* the gate takes seconds for milliseconds
DebouncedInSeconds(t, last) == t - last < DebounceMs \div 1000

(***************************************************************************)
(* fetchStreetsForPolygon, up to its try block (lines 32-38).              *)
(***************************************************************************)
\* the gate closing one millisecond early
DebouncedOffByOne(t, last) == t - last < DebounceMs - 1

\* the debounce gate: now - lastQueryTime < 1500
Debounced(t, last) == t - last < DebounceMs

fetchStreetsForPolygon(polygon, op) ==
  IF polygon = Null THEN
    /\ UNCHANGED <<lastQueryTime, loading, errorMsg, streets, pc, discarded, hist>>
    /\ lastOp' = Handler(op, "null")
  ELSE IF Debounced(now, lastQueryTime) THEN
    /\ UNCHANGED <<lastQueryTime, loading, errorMsg, streets, pc, discarded, hist>>
    /\ lastOp' = Handler(op, "dropped")
  ELSE
    /\ lastQueryTime' = now
    /\ loading' = TRUE
    /\ errorMsg' = Null
    /\ streets' = <<>>
    /\ pc' = polygon
    /\ discarded' = FALSE
    /\ hist' = [hist EXCEPT !.streetsFrom = Null, !.errorFrom = Null,
                            !.queried = @ \cup {polygon}]
    /\ lastOp' = Handler(op, "accepted")

\* the catch block without the finally block
CatchNoFinally(e) ==
  /\ errorMsg' = CatchMsg(variant, e)
  /\ loading' = loading

\* the catch and finally blocks (lines 67-71)
Catch(e) ==
  /\ errorMsg' = CatchMsg(variant, e)
  /\ loading' = FALSE

\* lines 40-48: serialize the polygon and issue the request, or throw
TryBlock ==
  /\ pc # Null
  /\ LET r == polygonToOverpassPoly(variant, GeomOf(layerGeom[pc]))
     IN  IF r.ok THEN
           /\ netCalls' = netCalls + 1
           /\ inflight' = inflight \cup
                {[id |-> netCalls + 1, layer |-> pc, poly |-> r.value, stage |-> "fetch"]}
           /\ lastOp' = Op("try", "none", netCalls + 1, 0, FALSE, NoExc)
           /\ hist' = [hist EXCEPT !.lastFetchTime = now, !.overlap = (inflight # {})]
           /\ UNCHANGED <<errorMsg, loading>>
         ELSE
           /\ Catch(r.exc)
           /\ lastOp' = Op("try", "none", 0, 0, TRUE, r.exc)
           /\ hist' = [hist EXCEPT !.errorFrom = pc]
           /\ UNCHANGED <<netCalls, inflight>>
  /\ pc' = Null
  /\ UNCHANGED <<variant, now, drawing, drawnItems, layerGeom, nextLayer, drawnPolygon,
                 streets, lastQueryTime, discarded, input, output>>

(***************************************************************************)
(* The continuations of fetchStreetsForPolygon after its awaits.           *)
(***************************************************************************)
\* a rejected fetch that is issued again by itself
FetchRejectRetries(r, e) ==
  /\ pc = Null
  /\ r.stage = "fetch"
  /\ netCalls' = netCalls + 1
  /\ lastOp' = Op("fetchReject", "none", r.id, 0, FALSE, NoExc)
  /\ UNCHANGED <<variant, now, drawing, drawnItems, layerGeom, nextLayer, drawnPolygon,
                 streets, loading, errorMsg, lastQueryTime, pc, inflight, discarded,
                 hist, input, output>>

\* await fetch(...) rejects
FetchReject(r, e) ==
  /\ pc = Null
  /\ r.stage = "fetch"
  /\ Catch(e)
  /\ inflight' = inflight \ {r}
  /\ lastOp' = Op("fetchReject", "none", r.id, 0, TRUE, e)
  /\ hist' = [hist EXCEPT !.errorFrom = r.layer]
  /\ UNCHANGED <<variant, now, drawing, drawnItems, layerGeom, nextLayer, drawnPolygon,
                 streets, lastQueryTime, pc, netCalls, discarded, input, output>>

\* await fetch(...) resolves with a response: lines 49-57
FetchRespond(r, status) ==
  /\ pc = Null
  /\ r.stage = "fetch"
  /\ IF RespOk(status) THEN
       /\ inflight' = (inflight \ {r}) \cup {[r EXCEPT !.stage = "json"]}
       /\ lastOp' = Op("fetchRespond", "none", r.id, status, FALSE, NoExc)
       /\ UNCHANGED <<errorMsg, loading, hist>>
     ELSE
       /\ Catch(Exc(TRUE, StatusMsg(variant, status)))
       /\ inflight' = inflight \ {r}
       /\ lastOp' = Op("fetchRespond", "none", r.id, status, TRUE,
                       Exc(TRUE, StatusMsg(variant, status)))
       /\ hist' = [hist EXCEPT !.errorFrom = r.layer]
  /\ UNCHANGED <<variant, now, drawing, drawnItems, layerGeom, nextLayer, drawnPolygon,
                 streets, lastQueryTime, pc, netCalls, discarded, input, output>>

\* await resp.json() rejects: the body is not JSON
JsonReject(r, e) ==
  /\ pc = Null
  /\ r.stage = "json"
  /\ Catch(e)
  /\ inflight' = inflight \ {r}
  /\ lastOp' = Op("jsonReject", "none", r.id, 0, TRUE, e)
  /\ hist' = [hist EXCEPT !.errorFrom = r.layer]
  /\ UNCHANGED <<variant, now, drawing, drawnItems, layerGeom, nextLayer, drawnPolygon,
                 streets, lastQueryTime, pc, netCalls, discarded, input, output>>

\* await resp.json() resolves: lines 58-66, then finally
JsonResolve(r, json) ==
  /\ pc = Null
  /\ r.stage = "json"
  /\ streets' = StreetsOf(json)
  /\ loading' = FALSE
  /\ inflight' = inflight \ {r}
  /\ lastOp' = [Op("jsonResolve", "none", r.id, 0, FALSE, NoExc)
                  EXCEPT !.result = StreetsOf(json)]
  /\ hist' = [hist EXCEPT !.streetsFrom = r.layer]
  /\ UNCHANGED <<variant, now, drawing, drawnItems, layerGeom, nextLayer, drawnPolygon,
                 errorMsg, lastQueryTime, pc, netCalls, discarded, input, output>>

(***************************************************************************)
(* The draw-event handlers and the buttons of the panel.                   *)
(***************************************************************************)
\* map.on(DRAWSTART): the polygon tool is the only draw tool enabled
DrawStart ==
  /\ pc = Null
  /\ ~drawing
  /\ drawing' = TRUE
  /\ drawnItems' = {}
  /\ drawnPolygon' = Null
  /\ streets' = <<>>
  /\ errorMsg' = Null
  /\ layerGeom' = NoGeom
  /\ discarded' = TRUE
  /\ hist' = [hist EXCEPT !.streetsFrom = Null, !.errorFrom = Null, !.queried = {}]
  /\ lastOp' = Handler("drawstart", "none")
  /\ UNCHANGED <<variant, now, nextLayer, loading, lastQueryTime, pc,
                 inflight, netCalls, input, output>>

\* the user leaves the polygon tool without finishing: no handler is registered
DrawStop ==
  /\ pc = Null
  /\ drawing
  /\ drawing' = FALSE
  /\ lastOp' = Handler("drawstop", "none")
  /\ UNCHANGED <<variant, now, drawnItems, layerGeom, nextLayer, drawnPolygon, streets,
                 loading, errorMsg, lastQueryTime, pc, inflight, netCalls, discarded, hist, input, output>>

\* map.on(CREATED)
Created(kind) ==
  /\ pc = Null
  /\ drawing
  /\ nextLayer < MaxLayers
  /\ LET layer == LayerIds[nextLayer + 1]
     IN  /\ drawnItems' = drawnItems \cup {layer}
         /\ layerGeom' = [layerGeom EXCEPT ![layer] = kind]
         /\ drawnPolygon' = layer
         /\ fetchStreetsForPolygon(layer, "created")
  /\ nextLayer' = nextLayer + 1
  /\ drawing' = FALSE
  /\ UNCHANGED <<variant, now, inflight, netCalls, input, output>>

\* map.on(EDITED): the widget has changed the geometry of the edited layer
Edited(layer, kind) ==
  /\ pc = Null
  /\ ~drawing
  /\ layer \in drawnItems
  /\ layerGeom' = [layerGeom EXCEPT ![layer] = kind]
  /\ drawnPolygon' = layer
  /\ fetchStreetsForPolygon(layer, "edited")
  /\ UNCHANGED <<variant, now, drawing, drawnItems, nextLayer, inflight, netCalls,
                 input, output>>

\* map.on(DELETED): the widget has removed the deleted layers from drawnItems
Deleted ==
  /\ pc = Null
  /\ ~drawing
  /\ drawnItems # {}
  /\ drawnItems' = {}
  /\ drawnPolygon' = Null
  /\ streets' = <<>>
  /\ errorMsg' = Null
  /\ layerGeom' = NoGeom
  /\ discarded' = TRUE
  /\ hist' = [hist EXCEPT !.streetsFrom = Null, !.errorFrom = Null, !.queried = {}]
  /\ lastOp' = Handler("deleted", "none")
  /\ UNCHANGED <<variant, now, drawing, nextLayer, loading, lastQueryTime,
                 pc, inflight, netCalls, input, output>>

\* the Retry button of the error branch
Retry ==
  /\ pc = Null
  /\ Panel = "error"
  /\ fetchStreetsForPolygon(drawnPolygon, "retry")
  /\ UNCHANGED <<variant, now, drawing, drawnItems, layerGeom, nextLayer, drawnPolygon,
                 inflight, netCalls, input, output>>

\* the Refresh button of the empty-result branch
Refresh ==
  /\ pc = Null
  /\ Panel = "empty"
  /\ fetchStreetsForPolygon(drawnPolygon, "refresh")
  /\ UNCHANGED <<variant, now, drawing, drawnItems, layerGeom, nextLayer, drawnPolygon,
                 inflight, netCalls, input, output>>

\* time passes
Tick(t) ==
  /\ pc = Null
  /\ t > now
  /\ now' = t
  /\ lastOp' = Handler("tick", "none")
  /\ UNCHANGED <<variant, drawing, drawnItems, layerGeom, nextLayer, drawnPolygon, streets,
                 loading, errorMsg, lastQueryTime, pc, inflight, netCalls, discarded, hist, input, output>>

(***************************************************************************)
(* The page.                                                               *)
(***************************************************************************)
AppInit ==
  /\ now = StartTime
  /\ drawing = FALSE
  /\ drawnItems = {}
  /\ layerGeom = NoGeom
  /\ nextLayer = 0
  /\ drawnPolygon = Null
  /\ streets = <<>>
  /\ loading = FALSE
  /\ errorMsg = Null
  /\ lastQueryTime = 0
  /\ pc = Null
  /\ inflight = {}
  /\ netCalls = 0
  /\ lastOp = Handler("mount", "none")
  /\ discarded = FALSE
  /\ hist = [streetsFrom |-> Null, errorFrom |-> Null, lastFetchTime |-> 0,
             overlap |-> FALSE, queried |-> {}]

Init ==
  /\ variant \in Variants
  /\ AppInit
  /\ input = <<>>
  /\ output = <<>>

Next ==
  \/ \E t \in Instants : Tick(t)
  \/ DrawStart
  \/ DrawStop
  \/ \E kind \in GeomKinds : Created(kind)
  \/ \E layer \in Layers, kind \in GeomKinds : Edited(layer, kind)
  \/ Deleted
  \/ Retry
  \/ Refresh
  \/ TryBlock
  \/ \E r \in inflight, e \in RejectReasons : FetchReject(r, e)
  \/ \E r \in inflight, status \in Statuses : FetchRespond(r, status)
  \/ \E r \in inflight, e \in RejectReasons : JsonReject(r, e)
  \/ \E r \in inflight, json \in Bodies : JsonResolve(r, json)

Spec == Init /\ [][Next]_vars

\* a started try block runs on, and every request in flight settles
Settle ==
  \E r \in inflight :
    \/ \E e \in RejectReasons : FetchReject(r, e) \/ JsonReject(r, e)
    \/ \E status \in Statuses : FetchRespond(r, status)
    \/ \E json \in Bodies : JsonResolve(r, json)

FairSpec == Spec /\ WF_vars(TryBlock) /\ WF_vars(Settle)

(***************************************************************************)
(* The serializer alone: polygonToOverpassPoly applied to every geometry   *)
(* of a single ring of 3..MaxVerts vertices, flat or nested.               *)
(***************************************************************************)
Verts == {LatLng(55, -3), LatLng(56, -3), LatLng(56, -2)}

Rings == UNION { [1..n -> Verts] : n \in 3..MaxVerts }

\* getLatLngs() of a polygon of one ring: nested in a one-element list, or flat
SerInputs ==
  { [shape |-> "nested", ring |-> ring, geom |-> Arr(<<Arr(ring)>>)] : ring \in Rings }
    \cup { [shape |-> "flat", ring |-> ring, geom |-> Arr(ring)] : ring \in Rings }

SerInit ==
  /\ variant \in Variants
  /\ AppInit
  /\ input \in { <<i>> : i \in SerInputs }
  /\ output = <<>>

Serialize ==
  /\ output = <<>>
  /\ output' = <<polygonToOverpassPoly(variant, input[1].geom)>>
  /\ UNCHANGED <<variant, input>>
  /\ UNCHANGED appVars

SerNext == Serialize

SerSpec == SerInit /\ [][SerNext]_vars

(***************************************************************************)
(* The aggregation alone: lines 60-66 applied to every response body of at *)
(* most MaxElems elements.                                                 *)
(***************************************************************************)
ElementUniverse ==
  { Element("way", TRUE, n) : n \in Names }
    \cup { Element("way", TRUE, ""), Element("way", FALSE, ""),
           Element("node", TRUE, "High Street"), Element("node", FALSE, "") }

AggInputs ==
  { Json(TRUE, els) : els \in UNION { [1..n -> ElementUniverse] : n \in 0..MaxElems } }
    \cup { Json(FALSE, <<>>) }

AggInit ==
  /\ variant \in Variants
  /\ AppInit
  /\ input \in { <<j>> : j \in AggInputs }
  /\ output = <<>>

Aggregate ==
  /\ output = <<>>
  /\ output' = <<StreetsOf(input[1])>>
  /\ UNCHANGED <<variant, input>>
  /\ UNCHANGED appVars

AggNext == Aggregate

AggSpec == AggInit /\ [][AggNext]_vars

(***************************************************************************)
(* Properties of the page.                                                 *)
(***************************************************************************)
\* the handlers that call fetchStreetsForPolygon
CallingOps == {"created", "edited", "retry", "refresh"}

\* the continuations at which an invocation ends
Settled(op) ==
  \/ op.op \in {"fetchReject", "jsonReject", "jsonResolve"}
  \/ op.op \in {"fetchRespond", "try"} /\ op.threw

\* s contains the text h
Contains(s, h) ==
  \E i \in 1..(Len(s) - Len(h) + 1) : SubSeq(s, i, i + Len(h) - 1) = h

\* C1: a call of fetchStreetsForPolygon made less than 1500 ms after the
\* previous accepted attempt issues no network call (none is counted, none is
\* put in flight, no try block is entered) and leaves loading, errorMsg,
\* streets and lastQueryTime unchanged.
C1_DebounceNoOp ==
  [][ (lastOp'.op \in CallingOps /\ now - lastQueryTime < 1500)
        => /\ netCalls' = netCalls
           /\ inflight' = inflight
           /\ pc' = pc
           /\ loading' = loading
           /\ errorMsg' = errorMsg
           /\ streets' = streets
           /\ lastQueryTime' = lastQueryTime ]_vars

\* a Retry is dropped in the last millisecond of the window of a failed attempt
C1_Witness ==
  /\ lastOp.op = "retry"
  /\ lastOp.call = "dropped"
  /\ now - lastQueryTime = 1499
  /\ inflight = {}

\* C2 as stated: the try block of every accepted invocation issues exactly one
\* network call, and nothing else issues one.
C2_OneCallPerInvocation ==
  [][ /\ (pc # Null /\ pc' = Null) => netCalls' = netCalls + 1
      /\ (pc = Null) => netCalls' = netCalls ]_vars

\* C2 amended: an accepted invocation issues exactly one network call when its
\* polygon serializes and none when the serializer throws; a try block is
\* entered only by an accepted call of a UI handler; nothing else issues a call.
C2_AtMostOneCall ==
  [][ /\ (pc # Null /\ pc' = Null)
         => netCalls' = netCalls + (IF lastOp'.threw THEN 0 ELSE 1)
      /\ (pc = Null) => netCalls' = netCalls
      /\ (pc = Null /\ pc' # Null)
         => lastOp'.op \in CallingOps /\ lastOp'.call = "accepted" ]_vars

\* both cases have happened: a request is in flight and the next invocation threw
C2_Witness ==
  /\ lastOp.op = "try"
  /\ lastOp.threw
  /\ netCalls = 1
  /\ inflight # {}

\* C3: an accepted invocation enters loading with errorMsg null and streets
\* empty; when an invocation settles loading is false, and errorMsg is set when
\* it settled by an exception; and, every request settling eventually, loading
\* leads to a state that is not loading.
C3_StateMachine ==
  /\ [][ /\ lastOp'.call = "accepted"
            => loading' /\ errorMsg' = Null /\ streets' = <<>>
         /\ Settled(lastOp')
            => ~loading' /\ (lastOp'.threw => errorMsg' # Null) ]_vars
  /\ (loading ~> ~loading)

\* a Retry from the error state has re-entered loading
C3_Witness ==
  /\ lastOp.op = "retry"
  /\ lastOp.call = "accepted"
  /\ loading
  /\ netCalls >= 1

\* C4: after a response that is not ok the query is in the error state; the
\* message for 429 differs from the message of every other status that is not
\* ok, and the error branch of the panel then shows the hint to retry.
C4_Status429 ==
  (lastOp.op = "fetchRespond" /\ ~(lastOp.status >= 200 /\ lastOp.status <= 299))
    => /\ ~loading
       /\ errorMsg # Null
       /\ errorMsg # ""
       /\ Contains(errorMsg, ToString(lastOp.status))
       /\ lastOp.status = 429
            => /\ \A st \in Statuses \ {429} : errorMsg # StatusMsg(variant, st)
               /\ \E i \in 1..Len(ErrorPanelText(variant, errorMsg)) :
                    Contains(ErrorPanelText(variant, errorMsg)[i], "try clicking 'Retry'")

C4_Witness ==
  /\ lastOp.op = "fetchRespond"
  /\ lastOp.status = 429
  /\ variant = "part_000"
  /\ Panel = "error"

\* C5: after an exception in an accepted invocation loading is false and
\* errorMsg is a non-empty message: the message of the exception when it has
\* one, the fallback otherwise; and the panel of a drawn polygon shows the error.
C5_ExceptionSurfaces ==
  lastOp.threw
    => /\ ~loading
       /\ errorMsg # Null
       /\ errorMsg # ""
       /\ errorMsg = (IF lastOp.exc.message # "" THEN lastOp.exc.message
                      ELSE "Failed to load streets")
       /\ drawnPolygon # Null => Panel = "error"

(***************************************************************************)
(* Properties of the aggregation (AggSpec).                                *)
(***************************************************************************)
\* the names carried by the elements of type way with a non-empty name tag
QualifyingNames(json) ==
  IF json.elementsIsArray
    THEN { json.elements[i].name :
             i \in { k \in 1..Len(json.elements) :
                       /\ json.elements[k].type = "way"
                       /\ json.elements[k].hasTags
                       /\ json.elements[k].name # "" } }
    ELSE {}

\* C6: every distinct name of the qualifying elements of a response occurs
\* exactly once in the result list.
C6_EachNameOnce ==
  output # <<>>
    => \A n \in QualifyingNames(input[1]) :
         Cardinality({ i \in 1..Len(output[1]) : output[1][i] = n }) = 1

\* two elements carry one name and a third another
C6_Witness ==
  /\ output = << <<"High Street", "Main Street">> >>
  /\ input[1].elements = <<Element("way", TRUE, "High Street"),
                           Element("way", TRUE, "Main Street"),
                           Element("way", TRUE, "High Street")>>

\* C7 as stated: every two adjacent entries of the result compare strictly
\* negative under localeCompare.
C7_StrictlyAscending ==
  output # <<>>
    => \A i \in 1..(Len(output[1]) - 1) :
         localeCompare(output[1][i], output[1][i + 1]) < 0

\* the two spellings of one text: canonically equivalent, different strings
CanonicallyEquivalent(a, b) == a # b /\ {a, b} = {CafeNFC, CafeNFD}

\* C7 amended: adjacent entries never compare positive, and compare strictly
\* negative unless they are canonically equivalent spellings of one text.
C7_Ascending ==
  output # <<>>
    => \A i \in 1..(Len(output[1]) - 1) :
         /\ localeCompare(output[1][i], output[1][i + 1]) <= 0
         /\ ~CanonicallyEquivalent(output[1][i], output[1][i + 1])
              => localeCompare(output[1][i], output[1][i + 1]) < 0

\* a response out of order, holding both spellings
C7_Witness ==
  /\ input[1].elements = <<Element("way", TRUE, "Main Street"),
                           Element("way", TRUE, CafeNFD),
                           Element("way", TRUE, CafeNFC)>>
  /\ output = << <<CafeNFD, CafeNFC, "Main Street">> >>

(***************************************************************************)
(* Properties of the serializer (SerSpec).                                 *)
(***************************************************************************)
\* text is the lat and lng of every vertex of ring, in order, single spaces
\* between the numbers and between the pairs
IsPairs(text, ring) ==
  /\ Len(text) = 4 * Len(ring) - 1
  /\ \A i \in 1..Len(ring) :
       /\ text[4 * i - 3] = ToString(ring[i].lat)
       /\ text[4 * i - 2] = " "
       /\ text[4 * i - 1] = ToString(ring[i].lng)
       /\ i < Len(ring) => text[4 * i] = " "

\* C8 as stated: a ring of N >= 3 vertices, flat or nested in a one-element
\* list, is serialized to its N pairs in order, without raising.
C8_SerializesAnyRing ==
  output # <<>> => output[1].ok /\ IsPairs(output[1].value, input[1].ring)

\* C8 amended: a ring nested in a one-element list is serialized to its N
\* pairs in order by both revisions; a flat ring is serialized so by
\* +page.svelte only, and part_000 raises its invalid-structure error for it.
C8_SerializesNestedRing ==
  output # <<>>
    => IF input[1].shape = "nested" \/ variant = "page_svelte"
         THEN output[1].ok /\ IsPairs(output[1].value, input[1].ring)
         ELSE /\ ~output[1].ok
              /\ output[1].exc.isError
              /\ Contains(output[1].exc.message, "Invalid polygon structure")

\* a closed ring (the first vertex repeated as the last) of four vertices
C8_Witness ==
  /\ variant = "part_000"
  /\ output # <<>>
  /\ output[1].ok
  /\ input[1].shape = "nested"
  /\ Len(input[1].ring) = 4
  /\ input[1].ring[4] = input[1].ring[1]

(***************************************************************************)
(* Properties of the page, continued.                                      *)
(***************************************************************************)
\* C9: after draw:deleted or a polygon draw:drawstart, streets is empty and
\* errorMsg is null until a query invocation is accepted.
C9_DiscardedUntilNextQuery ==
  discarded => streets = <<>> /\ errorMsg = Null

\* C10: drawnItems never holds two polygons, and right after a polygon
\* draw:drawstart the group is empty, drawnPolygon is null and the query state
\* is idle.
C10_DrawStartResets ==
  /\ Cardinality(drawnItems) <= 1
  /\ lastOp.op = "drawstart"
       => /\ drawnItems = {}
          /\ drawnPolygon = Null
          /\ ~loading
          /\ streets = <<>>
          /\ errorMsg = Null

(***************************************************************************)
(* Properties of overlapping queries.                                      *)
(***************************************************************************)
\* C11: when the latest request was issued while an earlier one was still in
\* flight and both have settled, the state is the outcome of the one that
\* settled last: success with its names and no error message when it
\* succeeded, an error with its message when it failed.
C11_LastSettledWins ==
  (hist.overlap /\ inflight = {} /\ pc = Null /\ Settled(lastOp))
    => IF lastOp.threw
         THEN /\ errorMsg # Null
              /\ errorMsg \in {lastOp.exc.message, "Failed to load streets"}
         ELSE /\ errorMsg = Null
              /\ streets = lastOp.result

\* C12: whenever the panel shows a street list or an error while a polygon is
\* active, the list or the error was produced by a query issued for that
\* polygon, never by the response or failure of a query issued for a polygon
\* that was deleted, redrawn or replaced since.
C12_ShownStateIsOfActivePolygon ==
  /\ (drawnPolygon # Null /\ Panel = "list") => hist.streetsFrom = drawnPolygon
  /\ (drawnPolygon # Null /\ Panel = "error") => hist.errorFrom = drawnPolygon

(***************************************************************************)
(* Rate limit.                                                             *)
(***************************************************************************)
\* C13: a network call is initiated at least 1500 ms after the previous one,
\* and an invocation is accepted only 1500 ms or more after the previous
\* accepted one, whether that one issued its call, threw before it or failed
\* after it: it has recorded its time before its try block.
C13_RateLimit ==
  [][ /\ netCalls' = netCalls + 1
         => hist.lastFetchTime = 0 \/ now' - hist.lastFetchTime >= 1500
      /\ lastOp'.call = "accepted"
         => /\ now' - lastQueryTime >= 1500
            /\ lastQueryTime' = now' ]_vars

\* the second network call leaves exactly 1500 ms after the first, whose
\* request has failed in between
C13_Witness ==
  /\ lastOp.op = "try"
  /\ ~lastOp.threw
  /\ netCalls = 2
  /\ hist.lastFetchTime = StartTime + 1500
  /\ errorMsg = Null
  /\ inflight = {[id |-> 2, layer |-> drawnPolygon, poly |-> JoinSp([i \in 1..3 |-> PtText(Triangle[i])]), stage |-> "fetch"]}

(***************************************************************************)
(* The panel without names.                                                *)
(***************************************************************************)
\* C14: the panel "No named streets found inside polygon" is shown only for a
\* polygon for which a query was run.
C14_EmptyPanelOnlyAfterQuery ==
  (drawnPolygon # Null /\ Panel = "empty") => drawnPolygon \in hist.queried

(***************************************************************************)
(* Invalid geometry.                                                       *)
(***************************************************************************)
\* C15: the try block of an invocation for a polygon whose geometry has zero
\* rings or more than one ring ends in the error state with the message of
\* invalid geometry, streets empty and loading false, and issues no network
\* call: no request carries one ring of that geometry.
C15_InvalidGeometryIsAnError ==
  (lastOp.op = "try" /\ drawnPolygon # Null /\ layerGeom[drawnPolygon] \in {"none", "two"})
    => /\ lastOp.threw
       /\ lastOp.req = 0
       /\ errorMsg # Null
       /\ Contains(errorMsg, "Invalid polygon")
       /\ streets = <<>>
       /\ ~loading

(***************************************************************************)
(* Properties of the aggregation (AggSpec), continued.                     *)
(***************************************************************************)
\* C16: a name is in the result list if and only if an element of the
\* response's elements list has type way and a non-empty name tag of that
\* value; other elements, and an elements field that is not a list, add
\* nothing and the result is still a list.
C16_ResultIsQualifyingNames ==
  output # <<>>
    => /\ { output[1][i] : i \in 1..Len(output[1]) } = QualifyingNames(input[1])
       /\ ~input[1].elementsIsArray => output[1] = <<>>

\* a named node, a way without tags and a named way: only the last counts
C16_Witness ==
  /\ output = << <<"Main Street">> >>
  /\ input[1].elements = <<Element("node", TRUE, "High Street"),
                           Element("way", FALSE, ""),
                           Element("way", TRUE, "Main Street")>>

(***************************************************************************)
(* Invariants of the query state.                                          *)
(***************************************************************************)
\* an accepted query is in flight: its try block is about to run, or its
\* request has not settled
InFlight == pc # Null \/ inflight # {}

\* C17: loading is true if and only if an accepted query is still in flight.
C17_LoadingIffInFlight ==
  loading <=> InFlight

\* C18: errorMsg is never non-null while streets is non-empty, and while
\* loading is true streets is empty and errorMsg is null.
C18_ExactlyOneQueryState ==
  /\ ~(errorMsg # Null /\ streets # <<>>)
  /\ loading => (streets = <<>> /\ errorMsg = Null)

====
